---- MODULE Spec2Model ----
(***************************************************************************)
(* Model of the tool-loading and adaptation layer of postgres-dba-agent:   *)
(*   utils/load_tools_persistent.py  (ToolWrapper, the shared client,      *)
(*                                    load_single_tool,                    *)
(*                                    load_tools_persistent, cleanup)      *)
(*   subagents/tools_registry.py     (TOOLS_REGISTRY, execute_tool)        *)
(* The remote Toolbox service is the environment: constructing the client, *)
(* resolving a tool, invoking a tool and closing the client each may fail, *)
(* and an invocation returns any value of RemoteReturns.                   *)
(***************************************************************************)
EXTENDS Integers, Sequences, FiniteSets, TLC

(***************************************************************************)
(* Bounds of the model.                                                    *)
(***************************************************************************)
\* identifiers of one bundle whose remote resolution fails individually
MaxBroken == 1

(***************************************************************************)
(* Python values.  A value is a tagged tuple; a dict is a function from    *)
(* its keys (strings) to values.  Strings that the code takes apart or     *)
(* builds (usernames, exception messages) are sequences of characters.     *)
(***************************************************************************)
None == <<"none">>
PyInt(n) == <<"int", n>>
PyStr(chars) == <<"str", chars>>
PyLit(s) == <<"lit", s>>
PyDict(d) == <<"dict", d>>
PyList(l) == <<"list", l>>

IsNone(v) == v[1] = "none"
IsStr(v) == v[1] = "str"
IsDict(v) == v[1] = "dict"

EmptyDict == [k \in {} |-> None]

Range(seq) == {seq[i] : i \in 1..Len(seq)}

\* Python truthiness of a value ("if username", "if not params")
Truthy(v) ==
    CASE v[1] = "none" -> FALSE
      [] v[1] = "int" -> v[2] # 0
      [] v[1] = "str" -> Len(v[2]) > 0
      [] v[1] = "lit" -> v[2] # ""
      [] v[1] = "dict" -> DOMAIN v[2] # {}
      [] v[1] = "list" -> Len(v[2]) > 0
      [] OTHER -> TRUE

\* the defaults kept where the caller names the same parameter
Mutant_DictMerge(a, b) ==
    [k \in DOMAIN a \cup DOMAIN b |-> IF k \in DOMAIN a THEN a[k] ELSE b[k]]

\* {**a, **b}: the keys of both, b's value where both have the key
DictMerge(a, b) == [k \in DOMAIN a \cup DOMAIN b |-> IF k \in DOMAIN b THEN b[k] ELSE a[k]]

\* {k: v for k, v in d.items() if v is not None}
DropNone(d) == [k \in {x \in DOMAIN d : ~IsNone(d[x])} |-> d[k]]

(***************************************************************************)
(* Character strings.                                                      *)
(***************************************************************************)
UpperLetters == <<"A","B","C","D","E","F","G","H","I","J","K","L","M",
                  "N","O","P","Q","R","S","T","U","V","W","X","Y","Z">>
LowerLetters == <<"a","b","c","d","e","f","g","h","i","j","k","l","m",
                  "n","o","p","q","r","s","t","u","v","w","x","y","z">>

LowerChar(c) ==
    IF \E i \in 1..Len(UpperLetters) : UpperLetters[i] = c
    THEN LowerLetters[CHOOSE i \in 1..Len(UpperLetters) : UpperLetters[i] = c]
    ELSE c

\* str.lower()
Lower(s) == [i \in 1..Len(s) |-> LowerChar(s[i])]

\* sub in s
Contains(sub, s) ==
    \E i \in 1..(Len(s) - Len(sub) + 1) : SubSeq(s, i, i + Len(sub) - 1) = sub

S_parameter == <<"p","a","r","a","m","e","t","e","r">>
S_failed_to_parse ==
    <<"F","a","i","l","e","d"," ","t","o"," ","p","a","r","s","e"," ",
      "t","h","e"," ","p","a","r","a","m","e","t","e","r">>
S_orders == <<"o","r","d","e","r","s">>
S_public == <<"p","u","b","l","i","c">>
S_app_user == <<"a","p","p","_","u","s","e","r">>
S_quoted == <<"\"","a","\"">>
S_empty == << >>

(***************************************************************************)
(* Exceptions of the remote layer, by the text of str(e).                  *)
(***************************************************************************)
\* parse, shape, argument: the call's arguments were rejected; refused: a transport
\* fault; config: a fault of the database behind the tool, whatever the arguments;
\* unknown_tool: the identifier does not resolve
ExceptionText ==
    [ parse    |-> S_failed_to_parse \o <<" ","l","i","m","i","t">>,
      shape    |-> <<"I","n","v","a","l","i","d"," ","P","A","R","A","M","E","T","E","R">>,
      argument |-> <<"m","i","s","s","i","n","g"," ","a"," ","r","e","q","u","i","r","e","d"," ",
                     "a","r","g","u","m","e","n","t">>,
      refused  |-> <<"c","o","n","n","e","c","t","i","o","n"," ","r","e","f","u","s","e","d">>,
      config   |-> <<"u","n","r","e","c","o","g","n","i","z","e","d"," ",
                     "c","o","n","f","i","g","u","r","a","t","i","o","n"," ",
                     "p","a","r","a","m","e","t","e","r">>,
      unknown_tool |-> <<"t","o","o","l"," ","n","o","t"," ","f","o","u","n","d">> ]

Exceptions == DOMAIN ExceptionText
NoException == "no exception"

(***************************************************************************)
(* subagents/tools_registry.py: TOOLS_REGISTRY                             *)
(***************************************************************************)
Entry(cat, params, req, opt, dflt) ==
    [category |-> cat, parameters |-> params, required_params |-> req,
     optional_params |-> opt, defaults |-> dflt]

TOOLS_REGISTRY ==
    [ list_database_tables |->
        Entry("schema", << >>, << >>, <<"schema_name", "table_name">>, EmptyDict),
      find_invalid_indexes |-> Entry("schema", << >>, << >>, << >>, EmptyDict),
      get_unused_indexes |->
        Entry("schema", <<"min_size_mb">>, << >>, <<"min_size_mb">>,
              ("min_size_mb" :> PyInt(1))),
      get_table_maintenance_stats |->
        Entry("schema", <<"table_name">>, << >>, <<"table_name">>, EmptyDict),
      get_database_users_and_roles |-> Entry("security", << >>, << >>, << >>, EmptyDict),
      get_user_table_permissions |->
        Entry("security", <<"table_name", "username">>, <<"username">>,
              <<"table_name">>, EmptyDict),
      get_user_role_memberships |->
        Entry("security", <<"username">>, <<"username">>, << >>, EmptyDict),
      get_current_connections_summary |-> Entry("security", << >>, << >>, << >>, EmptyDict),
      list_active_queries |->
        Entry("performance", << >>, << >>, <<"min_duration_ms", "exclude_apps">>, EmptyDict),
      get_slowest_historical_queries |->
        Entry("performance", <<"limit">>, << >>, <<"limit">>, ("limit" :> PyInt(10))),
      get_most_io_intensive_queries |->
        Entry("performance", <<"limit">>, << >>, <<"limit">>, ("limit" :> PyInt(10))),
      get_most_frequent_queries |->
        Entry("performance", <<"limit">>, << >>, <<"limit">>, ("limit" :> PyInt(10))),
      get_blocking_sessions |-> Entry("performance", << >>, << >>, << >>, EmptyDict),
      get_long_running_transactions |-> Entry("performance", << >>, << >>, << >>, EmptyDict),
      get_cache_hit_ratios |-> Entry("performance", << >>, << >>, << >>, EmptyDict),
      get_database_sizes |-> Entry("system", << >>, << >>, << >>, EmptyDict),
      get_table_sizes_summary |->
        Entry("system", <<"schema_name", "limit">>, << >>, <<"schema_name", "limit">>,
              ("schema_name" :> PyStr(S_public)) @@ ("limit" :> PyInt(50))),
      list_all_schemas |-> Entry("system", << >>, << >>, << >>, EmptyDict),
      get_memory_configuration |-> Entry("system", << >>, << >>, << >>, EmptyDict),
      get_postgresql_version_info |-> Entry("system", << >>, << >>, << >>, EmptyDict),
      get_replication_status |-> Entry("system", << >>, << >>, << >>, EmptyDict),
      list_installed_extensions |-> Entry("system", << >>, << >>, << >>, EmptyDict),
      list_available_extensions |-> Entry("system", << >>, << >>, << >>, EmptyDict) ]

\* list(TOOLS_REGISTRY.keys())
RegistryKeys == DOMAIN TOOLS_REGISTRY

(***************************************************************************)
(* utils/load_tools_persistent.py: TOOL_DEFAULTS                           *)
(***************************************************************************)
TOOL_DEFAULTS ==
    [ get_most_frequent_queries |-> ("limit" :> PyInt(10)),
      get_slowest_historical_queries |-> ("limit" :> PyInt(10)),
      get_most_io_intensive_queries |-> ("limit" :> PyInt(10)),
      get_unused_indexes |-> ("min_size_mb" :> PyInt(1)),
      get_table_maintenance_stats |-> ("table_name" :> None),
      get_user_role_memberships |-> ("username" :> None),
      get_user_table_permissions |-> ("table_name" :> None) @@ ("username" :> None),
      list_active_queries |-> ("min_duration_ms" :> None) @@ ("exclude_apps" :> None),
      list_database_tables |-> ("schema_name" :> None) @@ ("table_name" :> None) ]

\* TOOL_DEFAULTS.get(tool_name, {})
DefaultsOf(tool_name) ==
    IF tool_name \in DOMAIN TOOL_DEFAULTS THEN TOOL_DEFAULTS[tool_name] ELSE EmptyDict

(***************************************************************************)
(* utils/load_tools_persistent.py: the toolsets of load_tools_persistent   *)
(***************************************************************************)
Toolsets ==
    "postgres-dba-emergency" :> (
        <<"list_active_queries", "get_blocking_sessions",
          "get_long_running_transactions", "get_current_connections_summary">>) @@
    "postgres-dba-performance" :> (
        <<"list_active_queries", "get_slowest_historical_queries",
          "get_most_io_intensive_queries", "get_most_frequent_queries",
          "get_blocking_sessions", "get_long_running_transactions",
          "get_cache_hit_ratios">>) @@
    "postgres-dba-schema" :> (
        <<"list_database_tables", "find_invalid_indexes", "get_unused_indexes",
          "get_table_maintenance_stats">>) @@
    "postgres-dba-security" :> (
        <<"get_database_users_and_roles", "get_user_table_permissions",
          "get_current_connections_summary", "get_user_role_memberships",
          "list_database_tables", "get_postgresql_version_info",
          "list_installed_extensions">>) @@
    "postgres-dba-maintenance" :> (
        <<"get_database_sizes", "get_memory_configuration",
          "get_postgresql_version_info", "get_replication_status",
          "list_installed_extensions", "list_available_extensions">>) @@
    "postgres-dba-complete" :> (
        <<"list_active_queries", "list_database_tables", "list_installed_extensions",
          "list_available_extensions", "get_slowest_historical_queries",
          "get_most_io_intensive_queries", "get_most_frequent_queries",
          "get_blocking_sessions", "get_long_running_transactions",
          "find_invalid_indexes", "get_unused_indexes", "get_database_users_and_roles",
          "get_user_table_permissions", "get_current_connections_summary",
          "get_user_role_memberships", "get_database_sizes",
          "get_table_maintenance_stats", "get_memory_configuration",
          "get_postgresql_version_info", "get_replication_status",
          "get_cache_hit_ratios">>)

\* a name that is no toolset taken for the identifier of one tool
Mutant_ToolNamesOf(toolset_name) ==
    IF toolset_name \in DOMAIN Toolsets THEN Toolsets[toolset_name] ELSE <<toolset_name>>

\* toolsets.get(toolset_name, toolsets["postgres-dba-complete"])
ToolNamesOf(toolset_name) ==
    IF toolset_name \in DOMAIN Toolsets
    THEN Toolsets[toolset_name]
    ELSE Toolsets["postgres-dba-complete"]

(***************************************************************************)
(* utils/load_tools_persistent.py: ToolWrapper.__call__                    *)
(***************************************************************************)
\* what one invocation of the remote callable does: it returns a value or raises
Returns(v) == [raises |-> FALSE, exc |-> NoException, value |-> v]
Raises(e) == [raises |-> TRUE, exc |-> e, value |-> None]

\* one invocation of the remote callable: its keyword arguments and what it did
Invocation(args, did) == [args |-> args, exc |-> did.exc, value |-> did.value]

\* the result of a call: the value returned or the exception raised, and the
\* invocations of the remote callable it made, in order
Returned(v, calls) == [outcome |-> "returned", value |-> v, exc |-> NoException, invoked |-> calls]
Raised(e, calls) == [outcome |-> "raised", value |-> None, exc |-> e, invoked |-> calls]

\* params = {**self.defaults, **kwargs}, then the None-valued entries removed
MergedParams(tool_name, kwargs) == DropNone(DictMerge(DefaultsOf(tool_name), kwargs))

\* self.tool_name in ["get_user_table_permissions", "get_user_role_memberships"]
UsernameGated(tool_name) ==
    tool_name \in {"get_user_table_permissions", "get_user_role_memberships"}

\* the username check left out
Mutant_UsernameMissing(params) == FALSE

\* not params or "username" not in params or params["username"] is None
UsernameMissing(params) ==
    \/ DOMAIN params = {}
    \/ "username" \notin DOMAIN params
    \/ IsNone(params["username"])

\* the dict returned instead of calling the remote tool
BlockedEnvelope(tool_name) ==
    PyDict(("error" :> <<"fstr", "MISSING REQUIRED PARAMETER", tool_name, "username">>)
        @@ ("message" :> PyLit("SOLUTION: First call 'get_database_users_and_roles'"))
        @@ ("workflow" :> <<"fstr", "CORRECT SEQUENCE", tool_name>>)
        @@ ("status" :> PyLit("blocked")))

\* f'"{username}"'
\* the username passed as it came
Mutant_Quoted(chars) == chars

Quoted(chars) == <<"\"">> \o chars \o <<"\"">>

\* if username and isinstance(username, str): params["username"] = f'"{username}"'
QuoteUsername(params) ==
    IF "username" \in DOMAIN params /\ Truthy(params["username"]) /\ IsStr(params["username"])
    THEN [params EXCEPT !["username"] = PyStr(Quoted(params["username"][2]))]
    ELSE params

\* "Failed to parse the parameter" in str(e) or "parameter" in str(e).lower()
\* the test of the text without lower()
Mutant_MatchesParameter(text) ==
    Contains(S_failed_to_parse, text) \/ Contains(S_parameter, text)

MatchesParameter(text) ==
    \/ Contains(S_failed_to_parse, text)
    \/ Contains(S_parameter, Lower(text))

\* the exceptions of the remote layer that the test above takes for parameter errors
ParameterErrors == {e \in Exceptions : MatchesParameter(ExceptionText[e])}

\* every exception taken for a parameter error
Mutant_IsParameterError(exc) == TRUE

IsParameterError(exc) == exc \in ParameterErrors

\* the except branch: one more invocation, without arguments, after a parameter error
RetryWithoutParameters(params, first, second) ==
    IF IsParameterError(first.exc)
    THEN IF second.raises
         THEN Raised(second.exc, <<Invocation(params, first), Invocation(EmptyDict, second)>>)
         ELSE Returned(second.value,
                       <<Invocation(params, first), Invocation(EmptyDict, second)>>)
    ELSE Raised(first.exc, <<Invocation(params, first)>>)

\* ToolWrapper.__call__(**kwargs); first and second are what the remote callable
\* does on its first and on its second invocation
ToolWrapperCall(tool_name, kwargs, first, second) ==
    LET merged == MergedParams(tool_name, kwargs)
        params == IF UsernameGated(tool_name) THEN QuoteUsername(merged) ELSE merged
    IN  IF UsernameGated(tool_name) /\ UsernameMissing(merged)
        THEN Returned(BlockedEnvelope(tool_name), << >>)
        ELSE IF first.raises
             THEN RetryWithoutParameters(params, first, second)
             ELSE Returned(first.value, <<Invocation(params, first)>>)

(***************************************************************************)
(* State.                                                                  *)
(***************************************************************************)
VARIABLES
    toolbox_client, \* _toolbox_client: NoClient (None) or the stored client object
    closed,         \* the client objects still referenced whose close() has returned
    held,           \* the Adapter a caller of load_single_tool keeps (tool = load_single_tool(..))
    execAdapter,    \* the Adapter the latest execute_tool went through since the last teardown
    last,           \* the latest call: its arguments, its result and what it did remotely
    imported,       \* whether subagents/coordinator_agent.py has been loaded
    tools_cache,    \* _tools_cache of the coordinator: tool name -> ToolWrapper
    endpoint,       \* the toolbox_url the stored client was constructed with, and the
                    \* toolbox_url the latest call passed
    threads         \* the loader calls that run concurrently: where each one is

\* the state of the coordinator module
coordinator == <<imported, tools_cache>>

vars ==
    <<toolbox_client, closed, held, execAdapter, last, imported, tools_cache, endpoint,
      threads>>

NoClient == 0

\* no toolbox_url, config.TOOLBOX_URL, and the values callers pass for toolbox_url
NoUrl == ""
TOOLBOX_URL == "http://127.0.0.1:5000"
Urls == {TOOLBOX_URL, "http://toolbox.other:5000"}

\* two callers of the loader, and a caller that has not entered it
Threads == {"a", "b"}
NotStarted == [pc |-> "not started", op |-> "", local |-> NoClient, used |-> NoClient]

\* a ToolWrapper instance: its tool_name, the remote tool it wraps (the identifier
\* resolved and the client it was resolved through) and the object's identity
Adapter(name, ident, client, born) ==
    [tool_name |-> name, ident |-> ident, client |-> client, born |-> born]
NoAdapter == Adapter("", "", NoClient, 0)

\* the least number that names none of the objects in use
LeastUnused(used) == CHOOSE n \in 1..(Cardinality(used) + 1) :
                        n \notin used /\ \A m \in 1..(n - 1) : m \in used

\* the first client object handed out again, closed or not
Mutant_NewClient == LeastUnused({})

\* a new client object is none of the client objects still referenced
NewClient ==
    LeastUnused(closed \cup {held.client, execAdapter.client}
                    \cup {tools_cache[n].client : n \in DOMAIN tools_cache})

\* a new ToolWrapper object is none of the wrappers still referenced
NewWrapper ==
    LeastUnused({held.born, execAdapter.born}
                    \cup {tools_cache[n].born : n \in DOMAIN tools_cache})

LastCall(op, tool_name, kwargs, res, made, resolved, failed, adapters) ==
    [op |-> op, tool_name |-> tool_name, kwargs |-> kwargs,
     outcome |-> res.outcome, value |-> res.value, exc |-> res.exc,
     invoked |-> res.invoked,
     made |-> made,                 \* whether the call constructed a client
     resolved |-> resolved,         \* the identifiers handed to client.load_tool, in order
     failed |-> failed,             \* the remote steps of the call that raised and were caught
     adapters |-> adapters,         \* the ToolWrappers the call built, in order
     clientBefore |-> toolbox_client,
     execBefore |-> execAdapter,
     subcalls |-> << >>]            \* the calls a facade or an analysis made, in order

Init ==
    /\ toolbox_client = NoClient
    /\ closed = {}
    /\ held = NoAdapter
    /\ execAdapter = NoAdapter
    /\ last = LastCall("init", "", EmptyDict, Returned(None, << >>), FALSE, << >>, {}, << >>)
    /\ imported = FALSE
    /\ tools_cache = EmptyDict
    /\ endpoint = [stored |-> NoUrl, passed |-> NoUrl]
    /\ threads = [t \in Threads |-> NotStarted]

(***************************************************************************)
(* utils/load_tools_persistent.py: the shared client                       *)
(***************************************************************************)
\* a client constructed by every call, whether or not one is stored
Mutant_EnsureClient(ctorOk) ==
    IF ctorOk THEN [raised |-> FALSE, client |-> NewClient, made |-> TRUE]
    ELSE [raised |-> TRUE, client |-> NoClient, made |-> FALSE]

\* if _toolbox_client is None: _toolbox_client = ToolboxSyncClient(toolbox_url)
\* ctorOk: whether the constructor returns (it raises otherwise)
EnsureClient(ctorOk) ==
    IF toolbox_client # NoClient
    THEN [raised |-> FALSE, client |-> toolbox_client, made |-> FALSE]
    ELSE IF ctorOk
         THEN [raised |-> FALSE, client |-> NewClient, made |-> TRUE]
         ELSE [raised |-> TRUE, client |-> NoClient, made |-> FALSE]

\* ToolWrapper(raw_tool, tool_name): the wrapper takes its defaults from tool_name
ToolWrapper(tool_name, ident, client) == Adapter(tool_name, ident, client, NewWrapper)

\* the except block cleaning up as load_tools_persistent does before it re-raises
Mutant_LoadSingle(tool_name, ctorOk, resolveOk) ==
    LET c == EnsureClient(ctorOk)
    IN  IF c.raised \/ ~resolveOk
        THEN [raised |-> TRUE, exc |-> IF c.raised THEN "refused" ELSE "unknown_tool",
              client |-> NoClient, made |-> c.made,
              resolved |-> IF c.raised THEN << >> ELSE <<tool_name>>,
              failed |-> IF c.raised THEN {"connect"} ELSE {tool_name},
              adapter |-> NoAdapter]
        ELSE [raised |-> FALSE, exc |-> NoException, client |-> c.client,
              made |-> c.made, resolved |-> <<tool_name>>, failed |-> {},
              adapter |-> ToolWrapper(tool_name, tool_name, c.client)]

\* load_single_tool(toolbox_url, tool_name): the wrapper, or the exception re-raised
LoadSingle(tool_name, ctorOk, resolveOk) ==
    LET c == EnsureClient(ctorOk)
    IN  IF c.raised
        THEN [raised |-> TRUE, exc |-> "refused", client |-> c.client, made |-> c.made,
              resolved |-> << >>, failed |-> {"connect"}, adapter |-> NoAdapter]
        ELSE IF ~resolveOk
             THEN [raised |-> TRUE, exc |-> "unknown_tool", client |-> c.client,
                   made |-> c.made, resolved |-> <<tool_name>>, failed |-> {tool_name},
                   adapter |-> NoAdapter]
             ELSE [raised |-> FALSE, exc |-> NoException, client |-> c.client,
                   made |-> c.made, resolved |-> <<tool_name>>, failed |-> {},
                   adapter |-> ToolWrapper(tool_name, tool_name, c.client)]

\* the handle reset in the try block, after close(), instead of in finally
Mutant_HandleAfterCleanup(closeOk) == IF closeOk THEN NoClient ELSE toolbox_client

\* cleanup_toolbox_client(): the handle after the call
HandleAfterCleanup(closeOk) == NoClient

\* cleanup_toolbox_client(): close() is tried on the stored client only
ClosedAfterCleanup(closeOk) ==
    IF toolbox_client # NoClient /\ closeOk THEN closed \cup {toolbox_client} ELSE closed

\* the closed clients that the kept Adapter h still references
StillReferenced(cl, h) == cl \cap {h.client}

(***************************************************************************)
(* subagents/tools_registry.py: execute_tool                               *)
(***************************************************************************)
\* the registry check left out
Mutant_IsRegistered(tool_name) == TRUE

\* tool_name in TOOLS_REGISTRY
IsRegistered(tool_name) == tool_name \in RegistryKeys

\* {"error": f"Tool '{tool_name}' not found. Available tools: {available_tools}", "status": "failed"}
NotFoundEnvelope(tool_name) ==
    PyDict(("error" :> <<"fstr", "not found. Available tools", tool_name, RegistryKeys>>)
        @@ ("status" :> PyLit("failed")))

\* the error alone, as get_tool_info returns it
Mutant_ErrorEnvelope(tool_name, exc) ==
    PyDict("error" :> <<"fstr", "Error executing tool", tool_name, exc>>)

\* {"error": f"Error executing tool '{tool_name}': {str(e)}", "status": "failed"}
ErrorEnvelope(tool_name, exc) ==
    PyDict(("error" :> <<"fstr", "Error executing tool", tool_name, exc>>)
        @@ ("status" :> PyLit("failed")))

\* the exception let through
Mutant_CaughtByExecuteTool(tool_name, exc, calls) == Raised(exc, calls)

\* except Exception as e: ... return {"error": error_msg, "status": "failed"}
CaughtByExecuteTool(tool_name, exc, calls) ==
    Returned(ErrorEnvelope(tool_name, exc), calls)

\* the isinstance(result, dict) / "status" in result branches
Normalise(tool_name, result) ==
    IF IsDict(result) /\ "status" \in DOMAIN result[2]
    THEN result
    ELSE PyDict(("status" :> PyLit("success")) @@ ("tool_name" :> PyLit(tool_name))
             @@ ("result" :> result))

\* a wrapper kept per identifier and returned again
Mutant_ExecLoad(tool_name, ctorOk, resolveOk) ==
    IF execAdapter # NoAdapter /\ execAdapter.tool_name = tool_name
    THEN [raised |-> FALSE, exc |-> NoException, client |-> toolbox_client,
          made |-> FALSE, resolved |-> << >>, failed |-> {}, adapter |-> execAdapter]
    ELSE LoadSingle(tool_name, ctorOk, resolveOk)

\* tool = load_single_tool(config.TOOLBOX_URL, tool_name)
ExecLoad(tool_name, ctorOk, resolveOk) == LoadSingle(tool_name, ctorOk, resolveOk)

\* the part of execute_tool after the registry check
\* what execute_tool returns once load_single_tool has ended as ld
ExecuteResult(tool_name, kwargs, ld, first, second) ==
    LET r == ToolWrapperCall(ld.adapter.tool_name, kwargs, first, second)
    IN  IF ld.raised
        THEN CaughtByExecuteTool(tool_name, ld.exc, << >>)
        ELSE IF r.outcome = "raised"
             THEN CaughtByExecuteTool(tool_name, r.exc, r.invoked)
             ELSE Returned(Normalise(tool_name, r.value), r.invoked)

LoadAndExecute(tool_name, kwargs, ctorOk, resolveOk, first, second) ==
    LET ld == ExecLoad(tool_name, ctorOk, resolveOk)
        res == ExecuteResult(tool_name, kwargs, ld, first, second)
    IN  /\ toolbox_client' = ld.client
        /\ execAdapter' = IF ld.raised THEN execAdapter ELSE ld.adapter
        /\ last' = LastCall("execute_tool", tool_name, kwargs, res, ld.made, ld.resolved,
                            ld.failed, IF ld.raised THEN << >> ELSE <<ld.adapter>>)
        /\ UNCHANGED <<closed, held>>

ExecuteTool(tool_name, kwargs, ctorOk, resolveOk, first, second) ==
    IF ~IsRegistered(tool_name)
    THEN /\ last' = LastCall("execute_tool", tool_name, kwargs,
                             Returned(NotFoundEnvelope(tool_name), << >>),
                             FALSE, << >>, {}, << >>)
         /\ UNCHANGED <<toolbox_client, closed, held, execAdapter>>
    ELSE LoadAndExecute(tool_name, kwargs, ctorOk, resolveOk, first, second)

(***************************************************************************)
(* utils/load_tools_persistent.py: the loader's operations                 *)
(***************************************************************************)
\* get_toolbox_client(toolbox_url)
GetToolboxClient(ctorOk) ==
    LET c == EnsureClient(ctorOk)
    IN  /\ toolbox_client' = c.client
        /\ last' = LastCall("get_toolbox_client", "", EmptyDict,
                            IF c.raised THEN Raised("refused", << >>)
                                        ELSE Returned(None, << >>),
                            c.made, << >>, IF c.raised THEN {"connect"} ELSE {}, << >>)
        /\ UNCHANGED <<closed, held, execAdapter>>

\* load_single_tool(toolbox_url, tool_name), its caller keeping the wrapper
LoadSingleTool(tool_name, ctorOk, resolveOk) ==
    LET ld == LoadSingle(tool_name, ctorOk, resolveOk)
    IN  /\ toolbox_client' = ld.client
        /\ held' = IF ld.raised THEN held ELSE ld.adapter
        /\ closed' = StillReferenced(closed, held')
        /\ last' = LastCall("load_single_tool", tool_name, EmptyDict,
                            IF ld.raised THEN Raised(ld.exc, << >>)
                                         ELSE Returned(None, << >>),
                            ld.made, ld.resolved, ld.failed,
                            IF ld.raised THEN << >> ELSE <<ld.adapter>>)
        /\ UNCHANGED execAdapter

\* getattr(tool, "__name__", str(tool)): the remote tool carries its identifier
RawToolName(ident) == ident

RECURSIVE Mutant_ResolvedOf(_, _)
\* the loop left at the first identifier that fails
Mutant_ResolvedOf(tool_names, broken) ==
    IF tool_names = << >> \/ tool_names[1] \in broken THEN << >>
    ELSE <<tool_names[1]>> \o Mutant_ResolvedOf(Tail(tool_names), broken)

\* the loop "for tool_name in tool_names": the identifiers that resolved, in order
ResolvedOf(tool_names, broken) == SelectSeq(tool_names, LAMBDA t : t \notin broken)

\* the loop "for tool in raw_tools": one wrapper per resolved tool, in order
WrapAll(raw_tools, client) ==
    [i \in 1..Len(raw_tools) |->
        ToolWrapper(RawToolName(raw_tools[i]), raw_tools[i], client)]

\* load_tools_persistent(toolbox_url, toolset_name); broken: the identifiers whose
\* client.load_tool raises
LoadToolsPersistent(toolset_name, ctorOk, broken) ==
    LET c == EnsureClient(ctorOk)
        tool_names == ToolNamesOf(toolset_name)
        raw_tools == ResolvedOf(tool_names, broken)
    IN  /\ IF c.raised
           THEN \* except Exception: cleanup_toolbox_client(); return []
                /\ toolbox_client' = HandleAfterCleanup(TRUE)
                /\ closed' = StillReferenced(ClosedAfterCleanup(TRUE), held)
                /\ last' = LastCall("load_tools_persistent", toolset_name, EmptyDict,
                                    Returned(PyList(<< >>), << >>), FALSE, << >>,
                                    {"connect"}, << >>)
           ELSE /\ toolbox_client' = c.client
                /\ closed' = closed
                /\ last' = LastCall("load_tools_persistent", toolset_name, EmptyDict,
                                    Returned(PyList(raw_tools), << >>), c.made,
                                    tool_names, Range(tool_names) \cap broken,
                                    WrapAll(raw_tools, c.client))
        /\ UNCHANGED <<held, execAdapter>>

\* cleanup_toolbox_client(); closeOk: whether _toolbox_client.close() returns
CleanupToolboxClient(closeOk) ==
    /\ toolbox_client' = HandleAfterCleanup(closeOk)
    /\ closed' = StillReferenced(ClosedAfterCleanup(closeOk), held)
    /\ execAdapter' = NoAdapter
    /\ last' = LastCall("cleanup_toolbox_client", "", EmptyDict,
                        Returned(None, << >>), FALSE, << >>,
                        IF toolbox_client # NoClient /\ ~closeOk THEN {"close"} ELSE {},
                        << >>)
    /\ UNCHANGED held

\* a call of the kept Adapter: tool(**kwargs)
AdapterCall(kwargs, first, second) ==
    /\ held # NoAdapter
    /\ last' = LastCall("adapter_call", held.tool_name, kwargs,
                        ToolWrapperCall(held.tool_name, kwargs, first, second),
                        FALSE, << >>, {}, << >>)
    /\ UNCHANGED <<toolbox_client, closed, held, execAdapter>>

(***************************************************************************)
(* utils/load_tools_persistent.py: get_toolbox_client and load_single_tool *)
(* called from two threads.  Nothing locks _toolbox_client, so a thread    *)
(* may be suspended between any two of: the test "is None", the            *)
(* constructor call, the assignment to the global, and the later read of   *)
(* the global.                                                             *)
(***************************************************************************)
\* the clients the threads have constructed
Constructed == {threads[t].local : t \in Threads} \ {NoClient}

\* a client object that is none of those in existence
FreshClient ==
    LeastUnused(closed \cup Constructed
                    \cup {toolbox_client, held.client, execAdapter.client})

\* what a thread step leaves alone
ThreadStep == UNCHANGED <<closed, held, execAdapter, last, imported, tools_cache, endpoint>>

\* the thread t enters op
Enter(t, op) ==
    /\ threads[t].pc = "not started"
    /\ threads' = [threads EXCEPT ![t] = [@ EXCEPT !.pc = "test", !.op = op]]
    /\ UNCHANGED toolbox_client
    /\ ThreadStep

\* if _toolbox_client is None:
TestNone(t) ==
    /\ threads[t].pc = "test"
    /\ threads' = [threads EXCEPT ![t].pc =
                       IF toolbox_client = NoClient THEN "construct" ELSE "read"]
    /\ UNCHANGED toolbox_client
    /\ ThreadStep

\* ToolboxSyncClient(toolbox_url): returns a new client, or raises and ends the call
Construct(t, ctorOk) ==
    /\ threads[t].pc = "construct"
    /\ threads' = [threads EXCEPT ![t] =
                       IF ctorOk THEN [@ EXCEPT !.pc = "assign", !.local = FreshClient]
                       ELSE [@ EXCEPT !.pc = "raised"]]
    /\ UNCHANGED toolbox_client
    /\ ThreadStep

\* _toolbox_client = <the client constructed>
Assign(t) ==
    /\ threads[t].pc = "assign"
    /\ toolbox_client' = threads[t].local
    /\ threads' = [threads EXCEPT ![t].pc = "read"]
    /\ ThreadStep

\* return _toolbox_client, or _toolbox_client.load_tool(tool_name): the global is read
ReadGlobal(t) ==
    /\ threads[t].pc = "read"
    /\ threads' = [threads EXCEPT ![t] = [@ EXCEPT !.pc = "done", !.used = toolbox_client]]
    /\ UNCHANGED toolbox_client
    /\ ThreadStep

\* two loader calls that overlap
RaceNext ==
    \E t \in Threads :
        \/ \E op \in {"get_toolbox_client", "load_single_tool"} : Enter(t, op)
        \/ TestNone(t)
        \/ \E ctorOk \in BOOLEAN : Construct(t, ctorOk)
        \/ Assign(t)
        \/ ReadGlobal(t)

RaceSpec == Init /\ [][RaceNext]_vars

(***************************************************************************)
(* subagents/tools_registry.py: the Registry's queries.  They touch        *)
(* nothing remote.  The order of list(TOOLS_REGISTRY.keys()) is left out:  *)
(* the identifiers are kept as a set.                                      *)
(***************************************************************************)
PyBool(b) == <<"bool", b>>

\* list(TOOLS_REGISTRY.keys())
KeysOfRegistry == <<"keys", RegistryKeys>>

\* {"error": f"Tool '{tool_name}' not found"}
ToolInfoNotFound(tool_name) == PyDict("error" :> <<"fstr", "not found", tool_name>>)

\* the descriptor without the Registry's entry in it
Mutant_ToolInfo(tool_name) ==
    PyDict(("name" :> PyLit(tool_name)) @@ ("available" :> PyBool(TRUE)))

\* tool_info = TOOLS_REGISTRY[tool_name].copy(); tool_info["name"], ["available"] set
ToolInfo(tool_name) ==
    PyDict(("name" :> PyLit(tool_name)) @@ ("available" :> PyBool(TRUE))
        @@ TOOLS_REGISTRY[tool_name])

\* get_tool_info(tool_name): the value returned
GetToolInfoValue(tool_name) ==
    IF tool_name \notin RegistryKeys THEN ToolInfoNotFound(tool_name)
    ELSE ToolInfo(tool_name)

\* [param for param in required_params if param not in kwargs or kwargs[param] is None]
MissingParams(required_params, kwargs) ==
    SelectSeq(required_params, LAMBDA p : p \notin DOMAIN kwargs \/ IsNone(kwargs[p]))

\* [param for param in kwargs.keys() if param not in all_params]
UnknownParams(all_params, kwargs) == {p \in DOMAIN kwargs : p \notin Range(all_params)}

\* validate_tool_parameters(tool_name, **kwargs): the value returned
ValidateValue(tool_name, kwargs) ==
    IF tool_name \notin RegistryKeys
    THEN PyDict(("valid" :> PyBool(FALSE))
            @@ ("error" :> <<"fstr", "not found", tool_name>>)
            @@ ("available_tools" :> KeysOfRegistry))
    ELSE LET required_params == TOOLS_REGISTRY[tool_name].required_params
             all_params == TOOLS_REGISTRY[tool_name].parameters
             missing_params == MissingParams(required_params, kwargs)
             unknown_params == UnknownParams(all_params, kwargs)
         IN  IF missing_params # << >>
             THEN PyDict(("valid" :> PyBool(FALSE))
                     @@ ("error" :> <<"fstr", "Missing required parameters", missing_params>>)
                     @@ ("required_params" :> PyList(required_params))
                     @@ ("provided_params" :> <<"keys", DOMAIN kwargs>>))
             ELSE IF unknown_params # {}
                  THEN PyDict(("valid" :> PyBool(FALSE))
                          @@ ("warning" :> <<"fstr", "Unknown parameters will be ignored",
                                             unknown_params>>)
                          @@ ("valid_params" :> PyList(all_params)))
                  ELSE PyDict(("valid" :> PyBool(TRUE))
                          @@ ("message" :> PyLit("All parameters are valid")))

\* a query of the Registry: nothing but the record of the call changes
RegistryQuery(op, tool_name, kwargs, value) ==
    /\ last' = LastCall(op, tool_name, kwargs, Returned(value, << >>),
                        FALSE, << >>, {}, << >>)
    /\ UNCHANGED <<toolbox_client, closed, held, execAdapter>>

GetToolInfo(tool_name) ==
    RegistryQuery("get_tool_info", tool_name, EmptyDict, GetToolInfoValue(tool_name))

ListAvailableTools ==
    RegistryQuery("list_available_tools", "", EmptyDict, KeysOfRegistry)

ValidateToolParameters(tool_name, kwargs) ==
    RegistryQuery("validate_tool_parameters", tool_name, kwargs,
                  ValidateValue(tool_name, kwargs))

(***************************************************************************)
(* subagents/tools_registry.py: the analysis functions.  Each makes a      *)
(* sequence of execute_tool calls; env says what the remote layer does     *)
(* during the one invocation: whether the client can be constructed, the   *)
(* identifiers that do not resolve, and what each tool answers.            *)
(***************************************************************************)
\* one call made on behalf of the caller: what was called, with what, and how it ended
SubCall(callee, kwargs, r) ==
    [callee |-> callee, kwargs |-> kwargs, outcome |-> r.outcome, value |-> r.value,
     exc |-> r.exc]

\* one execute_tool call of an analysis: its result and what it did remotely.  env
\* is fixed during the invocation, so the client the first call finds or constructs
\* is the client of the calls after it
SubExecute(tool_name, kwargs, env) ==
    LET ld == ExecLoad(tool_name, env.ctorOk, tool_name \notin env.broken)
        b == env.answers[tool_name]
        res == IF ~IsRegistered(tool_name)
               THEN Returned(NotFoundEnvelope(tool_name), << >>)
               ELSE ExecuteResult(tool_name, kwargs, ld, b.first, b.second)
    IN  res @@ [callee |-> tool_name, kwargs |-> kwargs, ld |-> ld]

\* results["results"][key] = execute_tool(tool_name, **kwargs); a step with no key
\* is kept in a local variable, and table names the entry of maintenance_stats it
\* is stored in, if any
Step(key, tool_name, kwargs, env) ==
    [key |-> key, table |-> "", sub |-> SubExecute(tool_name, kwargs, env)]

\* {name: value} if the value is truthy, else nothing: "if value: params[name] = value"
IfTruthy(name, value) == IF Truthy(value) THEN name :> value ELSE EmptyDict

\* the last of the steps that stored under the key k (the table t)
LatestKey(steps, k) ==
    CHOOSE i \in 1..Len(steps) :
        steps[i].key = k /\ \A j \in (i + 1)..Len(steps) : steps[j].key # k
LatestTable(steps, t) ==
    CHOOSE i \in 1..Len(steps) :
        steps[i].table = t /\ \A j \in (i + 1)..Len(steps) : steps[j].table # t

\* the dictionary results["results"] after the steps; hasStats: whether
\* results["results"]["maintenance_stats"] was assigned
ResultsOf(steps, hasStats) ==
    LET keys == {steps[i].key : i \in 1..Len(steps)} \ {""}
        tables == {steps[i].table : i \in 1..Len(steps)} \ {""}
        stats == [t \in tables |-> steps[LatestTable(steps, t)].sub.value]
    IN  DictMerge([k \in keys |-> steps[LatestKey(steps, k)].sub.value],
                  IF hasStats THEN "maintenance_stats" :> PyDict(stats) ELSE EmptyDict)

\* {"analysis_type": ..., "status": "success", "results": {...}}
AnalysisEnvelope(analysis_type, steps, hasStats) ==
    PyDict(("analysis_type" :> PyLit(analysis_type)) @@ ("status" :> PyLit("success"))
        @@ ("results" :> PyDict(ResultsOf(steps, hasStats))))

\* {"error": ..., "status": "failed", "required_parameter": ..., "suggestion": ...}
MissingParameterEnvelope(name) ==
    PyDict(("error" :> <<"fstr", "is required", name>>) @@ ("status" :> PyLit("failed"))
        @@ ("required_parameter" :> PyLit(name))
        @@ ("suggestion" :> <<"fstr", "Example", name>>))

\* how an analysis ends: the steps it made, and either the parameter whose absence
\* made it return early or "return results"
NoneMissing == ""
Analysis(missing, steps, hasStats) ==
    [missing |-> missing, steps |-> steps, hasStats |-> hasStats]

\* the value the analysis returns
AnalysisValue(analysis_type, a) ==
    IF a.missing # NoneMissing THEN MissingParameterEnvelope(a.missing)
    ELSE AnalysisEnvelope(analysis_type, a.steps, a.hasStats)

\* the table names the loop "for table in tables" calls get_table_maintenance_stats
\* with: the truthy table_name of every dict among the first n elements
\* (tables[:n]), of all the elements when n is None (no slice)
TableNamesOf(tables, n) ==
    LET firstN == IF IsNone(n) \/ Len(tables) < n[2] THEN tables
                  ELSE SubSeq(tables, 1, n[2])
        named == SelectSeq(firstN, LAMBDA t :
                     /\ IsDict(t)
                     /\ "table_name" \in DOMAIN t[2]
                     /\ Truthy(t[2]["table_name"]))
    IN  [i \in 1..Len(named) |-> named[i][2]["table_name"]]

\* whether a get_table_sizes_summary result is walked:
\* table_sizes_result.get("status") == "success" and "result" in table_sizes_result
Usable(table_sizes_result) ==
    /\ "status" \in DOMAIN table_sizes_result[2]
    /\ table_sizes_result[2]["status"] = PyLit("success")
    /\ "result" \in DOMAIN table_sizes_result[2]

\* the steps of the block that collects maintenance_stats from a
\* get_table_sizes_summary result
StatsSteps(table_sizes_result, schema_name, n, env) ==
    LET tables == table_sizes_result[2]["result"]
        names == IF Usable(table_sizes_result) /\ tables[1] = "list"
                 THEN TableNamesOf(tables[2], n) ELSE << >>
    IN  [i \in 1..Len(names) |->
            [key |-> "", table |-> names[i][2],
             sub |-> SubExecute("get_table_maintenance_stats",
                                ("schema_name" :> schema_name)
                                    @@ ("table_name" :> names[i]), env)]]

\* the block, once the call of get_table_sizes_summary has ended as sizes
MaintenanceStats(sizes, schema_name, n, env) ==
    [steps |-> <<sizes>> \o StatsSteps(sizes.sub.value, schema_name, n, env),
     hasStats |-> Usable(sizes.sub.value)]

\* execute_performance_analysis(analysis_type, limit, min_duration, limit_active)
PerformanceAnalysis(analysis_type, limit, min_duration, limit_active, env) ==
    LET queries == analysis_type \in {"comprehensive", "queries"}
        active == IF queries
                  THEN <<Step("active_queries", "list_active_queries",
                              IfTruthy("min_duration", min_duration)
                                  @@ IfTruthy("limit", limit_active), env)>>
                  ELSE << >>
        historical ==
            IF queries
            THEN <<Step("slowest_queries", "get_slowest_historical_queries",
                        "limit" :> limit, env),
                   Step("io_intensive_queries", "get_most_io_intensive_queries",
                        "limit" :> limit, env),
                   Step("frequent_queries", "get_most_frequent_queries",
                        "limit" :> limit, env)>>
            ELSE << >>
        blocking == IF analysis_type \in {"comprehensive", "blocking"}
                    THEN <<Step("blocking_sessions", "get_blocking_sessions", EmptyDict, env),
                           Step("long_running_transactions",
                                "get_long_running_transactions", EmptyDict, env)>>
                    ELSE << >>
        cache == IF analysis_type \in {"comprehensive", "cache"}
                 THEN <<Step("cache_hit_ratios", "get_cache_hit_ratios", EmptyDict, env)>>
                 ELSE << >>
        memory == IF analysis_type \in {"comprehensive", "memory"}
                  THEN <<Step("memory_configuration", "get_memory_configuration",
                              EmptyDict, env)>>
                  ELSE << >>
        all == active \o historical \o blocking \o cache \o memory
    IN  IF queries /\ IsNone(limit)
        THEN Analysis("limit", active, FALSE)
        ELSE Analysis(NoneMissing, all, FALSE)

\* "x or y" of Python
Or(x, y) == IF Truthy(x) THEN x ELSE y

\* execute_schema_analysis(analysis_type, schema_name, limit, min_size_mb)
SchemaAnalysis(analysis_type, schema_name, limit, min_size_mb, env) ==
    LET tables == IF analysis_type \in {"comprehensive", "tables"}
                  THEN <<Step("table_sizes", "get_table_sizes_summary",
                              ("schema_name" :> schema_name) @@ IfTruthy("limit", limit),
                              env),
                         Step("tables", "list_database_tables", EmptyDict, env)>>
                  ELSE << >>
        indexes == IF analysis_type \in {"comprehensive", "indexes"}
                   THEN <<Step("invalid_indexes", "find_invalid_indexes", EmptyDict, env),
                          Step("unused_indexes", "get_unused_indexes",
                               IfTruthy("min_size_mb", min_size_mb), env)>>
                   ELSE << >>
        sizes == Step("", "get_table_sizes_summary",
                      ("schema_name" :> schema_name) @@ ("limit" :> PyInt(100)), env)
    IN  IF analysis_type \in {"comprehensive", "tables"} /\ IsNone(schema_name)
        THEN Analysis("schema_name", << >>, FALSE)
        ELSE IF analysis_type \notin {"comprehensive", "maintenance"}
             THEN Analysis(NoneMissing, tables \o indexes, FALSE)
             ELSE IF IsNone(schema_name)
                  THEN Analysis("schema_name", tables \o indexes, FALSE)
                  ELSE LET stats == CHOOSE m \in
                                      {MaintenanceStats(v, schema_name,
                                                        Or(limit, PyInt(10)), env) :
                                          v \in {sizes}} : TRUE
                       IN  Analysis(NoneMissing, tables \o indexes \o stats.steps,
                                    stats.hasStats)

\* execute_maintenance_analysis(analysis_type, schema_name, limit)
MaintenanceAnalysis(analysis_type, schema_name, limit, env) ==
    LET sizes == Step("table_sizes", "get_table_sizes_summary",
                      ("schema_name" :> schema_name) @@ ("limit" :> Or(limit, PyInt(20))),
                      env)
        inStats == analysis_type \in {"comprehensive", "stats"}
        stats == IF inStats
                 THEN CHOOSE m \in {MaintenanceStats(v, schema_name, None, env) :
                                       v \in {sizes}} : TRUE
                 ELSE [steps |-> << >>, hasStats |-> FALSE]
        second == IF analysis_type \in {"comprehensive", "sizes"}
                  THEN <<Step("database_sizes", "get_database_sizes", EmptyDict, env)>>
                       \o (IF Truthy(schema_name)
                           THEN <<Step("schema_table_sizes", "get_table_sizes_summary",
                                       ("schema_name" :> schema_name)
                                           @@ ("limit" :> limit), env)>>
                           ELSE << >>)
                  ELSE << >>
        third == IF analysis_type \in {"comprehensive", "extensions"}
                 THEN <<Step("installed_extensions", "list_installed_extensions",
                             EmptyDict, env),
                        Step("available_extensions", "list_available_extensions",
                             EmptyDict, env)>>
                 ELSE << >>
    IN  IF inStats /\ IsNone(schema_name)
        THEN Analysis("schema_name", << >>, FALSE)
        ELSE CHOOSE a \in {Analysis(NoneMissing, m.steps \o second \o third, m.hasStats) :
                              m \in {stats}} : TRUE

RECURSIVE Flatten(_)
\* the sequences of seqs, one after the other
Flatten(seqs) == IF seqs = << >> THEN << >> ELSE Head(seqs) \o Flatten(Tail(seqs))

\* an invocation of an analysis function that ended as a, having made the
\* execute_tool calls subs and returning value
Analysed(op, analysis_type, kwargs, a, subs, value) ==
    LET loaded == SelectSeq(subs, LAMBDA x : ~x.ld.raised)
    IN  /\ toolbox_client' = IF subs = << >> THEN toolbox_client ELSE subs[1].ld.client
        /\ execAdapter' = IF loaded = << >> THEN execAdapter
                          ELSE loaded[Len(loaded)].ld.adapter
        /\ last' = [LastCall(op, analysis_type, kwargs,
                             Returned(value, Flatten([i \in 1..Len(subs) |->
                                                          subs[i].invoked])),
                             subs # << >> /\ subs[1].ld.made,
                             Flatten([i \in 1..Len(subs) |-> subs[i].ld.resolved]),
                             UNION {subs[i].ld.failed : i \in 1..Len(subs)},
                             [i \in 1..Len(loaded) |-> loaded[i].ld.adapter])
                       EXCEPT !.subcalls =
                           [i \in 1..Len(subs) |->
                               SubCall(subs[i].callee, subs[i].kwargs, subs[i])]]
        /\ UNCHANGED <<closed, held>>

RunAnalysis(op, analysis_type, kwargs, a) ==
    \E subs \in {[i \in 1..Len(a.steps) |-> a.steps[i].sub]},
       value \in {AnalysisValue(analysis_type, a)} :
        Analysed(op, analysis_type, kwargs, a, subs, value)

ExecutePerformanceAnalysis(analysis_type, limit, min_duration, limit_active, env) ==
    \E a \in {PerformanceAnalysis(analysis_type, limit, min_duration, limit_active, env)} :
        RunAnalysis("execute_performance_analysis", analysis_type,
                    ("limit" :> limit) @@ ("min_duration" :> min_duration)
                        @@ ("limit_active" :> limit_active), a)

ExecuteSchemaAnalysis(analysis_type, schema_name, limit, min_size_mb, env) ==
    \E a \in {SchemaAnalysis(analysis_type, schema_name, limit, min_size_mb, env)} :
        RunAnalysis("execute_schema_analysis", analysis_type,
                    ("schema_name" :> schema_name) @@ ("limit" :> limit)
                        @@ ("min_size_mb" :> min_size_mb), a)

ExecuteMaintenanceAnalysis(analysis_type, schema_name, limit, env) ==
    \E a \in {MaintenanceAnalysis(analysis_type, schema_name, limit, env)} :
        RunAnalysis("execute_maintenance_analysis", analysis_type,
                    ("schema_name" :> schema_name) @@ ("limit" :> limit), a)

(***************************************************************************)
(* subagents/coordinator_agent.py: the tools pre-loaded when the module is *)
(* loaded, and the specialized facade functions that call them.            *)
(***************************************************************************)
\* for tool in tools: _tools_cache[getattr(tool, "__name__", str(tool))] = tool
IndexByName(tools) ==
    [n \in {tools[i].tool_name : i \in 1..Len(tools)} |->
        tools[CHOOSE i \in 1..Len(tools) :
                 /\ tools[i].tool_name = n
                 /\ \A j \in (i + 1)..Len(tools) : tools[j].tool_name # n]]

\* _initialize_tools(), run once, when the module is loaded
InitializeTools(ctorOk, broken) ==
    /\ ~imported
    /\ LoadToolsPersistent("postgres-dba-complete", ctorOk, broken)
    /\ imported' = TRUE
    /\ tools_cache' = DictMerge(tools_cache, IndexByName(last'.adapters))

\* the facade functions: the tool each calls and the keyword arguments it passes
FacadeOf(tool, params) == [tool |-> tool, params |-> params]

Facades ==
    [ execute_slowest_queries |-> FacadeOf("get_slowest_historical_queries", {"limit"}),
      execute_io_intensive_queries |-> FacadeOf("get_most_io_intensive_queries", {"limit"}),
      execute_frequent_queries |-> FacadeOf("get_most_frequent_queries", {"limit"}),
      execute_table_sizes |-> FacadeOf("get_table_sizes_summary", {"schema_name", "limit"}),
      execute_unused_indexes |-> FacadeOf("get_unused_indexes", {"min_size_mb"}),
      execute_table_maintenance_stats |->
          FacadeOf("get_table_maintenance_stats", {"schema_name", "table_name"}),
      execute_user_table_permissions |->
          FacadeOf("get_user_table_permissions", {"schema_name", "table_name", "username"}),
      execute_user_role_memberships |-> FacadeOf("get_user_role_memberships", {"username"}) ]

\* {"status": "success", "tool": ..., "result": result}
FacadeSuccess(tool, result) ==
    PyDict(("status" :> PyLit("success")) @@ ("tool" :> PyLit(tool))
        @@ ("result" :> result))

\* {"status": "failed", "tool": ..., "error": ...str(e)}
FacadeFailed(tool, exc) ==
    PyDict(("status" :> PyLit("failed")) @@ ("tool" :> PyLit(tool))
        @@ ("error" :> <<"fstr", "Error executing", tool, exc>>))

\* the body of a facade function: tool = _get_tool(name); result = tool(**kwargs)
FacadeResult(fn, kwargs, first, second) ==
    LET tool == Facades[fn].tool
    IN  IF tool \notin DOMAIN tools_cache
        THEN \* _get_tool raises KeyError
             [res |-> Returned(FacadeFailed(tool, "key_error"), << >>), subcalls |-> << >>]
        ELSE LET r == ToolWrapperCall(tools_cache[tool].tool_name, kwargs, first, second)
             IN  [res |-> IF r.outcome = "raised"
                          THEN Returned(FacadeFailed(tool, r.exc), r.invoked)
                          ELSE Returned(FacadeSuccess(tool, r.value), r.invoked),
                  subcalls |-> <<SubCall(tool, kwargs, r)>>]

\* a call of the facade function fn with the arguments kwargs
FacadeCall(fn, kwargs, first, second) ==
    LET f == FacadeResult(fn, kwargs, first, second)
    IN  /\ imported
        /\ DOMAIN kwargs = Facades[fn].params
        /\ last' = [LastCall(fn, Facades[fn].tool, kwargs, f.res, FALSE, << >>, {}, << >>)
                       EXCEPT !.subcalls = f.subcalls]
        /\ UNCHANGED <<toolbox_client, closed, held, execAdapter, imported, tools_cache>>

(***************************************************************************)
(* Inputs.                                                                 *)
(***************************************************************************)
\* the call of this step runs alone, from its first line to its return, and passes
\* url for toolbox_url: ToolboxSyncClient(toolbox_url) binds the client it
\* constructs to url, and a handle that is cleared has no endpoint
Sync(url) ==
    /\ endpoint' = [stored |-> IF last'.made THEN url
                               ELSE IF toolbox_client' = NoClient THEN NoUrl
                               ELSE endpoint.stored,
                    passed |-> url]
    /\ UNCHANGED threads

\* the identifiers callers name: five of the Registry, one the remote service has
\* and the Registry lacks, one nobody has
ToolNames ==
    {"get_user_role_memberships", "get_user_table_permissions", "get_unused_indexes",
     "get_table_sizes_summary", "get_database_sizes", "get_all_table_sizes",
     "no_such_tool"}

UserKwargs ==
    { EmptyDict,
      ("username" :> None),
      ("username" :> PyStr(S_empty)),
      ("username" :> PyStr(S_app_user)),
      ("username" :> PyStr(S_app_user)) @@ ("table_name" :> PyStr(S_orders)),
      ("username" :> PyStr(S_quoted)) @@ ("table_name" :> None),
      ("table_name" :> PyStr(S_orders)) }

SizeKwargs == {EmptyDict, ("min_size_mb" :> PyInt(50)), ("min_size_mb" :> None)}

TableKwargs == {EmptyDict, ("schema_name" :> PyStr(S_orders)) @@ ("limit" :> PyInt(5))}

\* the keyword arguments tried with each identifier
KwargsFor ==
    [t \in ToolNames |->
        CASE UsernameGated(t) -> UserKwargs
          [] t = "get_unused_indexes" -> SizeKwargs
          [] t = "get_table_sizes_summary" -> TableKwargs
          [] OTHER -> {EmptyDict}]

AllKwargs == UserKwargs \cup SizeKwargs \cup TableKwargs

\* what the remote callable may return
RemoteReturns ==
    { PyLit("rows"),
      PyDict(("rows" :> PyInt(3))),
      PyDict(("status" :> PyLit("ok")) @@ ("rows" :> PyInt(3))) }

\* what the two invocations of one call may do; the second is only reached after
\* the first has raised
Behaviour(first, second) == [first |-> first, second |-> second]

RemoteBehaviours ==
    {Behaviour(Returns(v), Returns(v)) : v \in RemoteReturns}
        \cup {Behaviour(Raises(e), s) :
                e \in Exceptions \ {"unknown_tool"},
                s \in {Returns(PyLit("rows")), Raises("refused"), Raises("parse")}}

\* the fewer behaviours tried behind execute_tool
FacadeBehaviours ==
    {Behaviour(Returns(v), Returns(v)) :
        v \in {PyLit("rows"), PyDict(("status" :> PyLit("ok")) @@ ("rows" :> PyInt(3)))}}
        \cup {Behaviour(Raises(e), s) :
                e \in {"parse", "refused"},
                s \in {Returns(PyLit("rows")), Raises("refused")}}

\* the toolset names callers pass: the defined ones but the complete one, and a tool
\* identifier (database_users_agent passes one), which is no toolset and loads the
\* complete one
ToolsetNames ==
    {"postgres-dba-emergency", "postgres-dba-performance", "postgres-dba-schema",
     "postgres-dba-security", "postgres-dba-maintenance",
     "get_database_users_and_roles"}

RECURSIVE SetsUpTo(_, _)
SetsUpTo(S, k) ==
    IF k = 0 THEN {{}}
    ELSE LET smaller == SetsUpTo(S, k - 1)
         IN  smaller \cup {B \cup {x} : B \in smaller, x \in S}

\* the identifiers of a bundle that fail to resolve: up to MaxBroken of them, or all
BrokenSets ==
    [n \in ToolsetNames |->
        SetsUpTo(Range(ToolNamesOf(n)), MaxBroken) \cup {Range(ToolNamesOf(n))}]

\* the constructor is only reached, and so only fails, while there is no handle
CtorOutcomes == IF toolbox_client = NoClient THEN BOOLEAN ELSE {TRUE}

\* what the remote service does during one execute_tool: the constructor fails, or
\* the resolution fails, or the tool resolves and behaves as b
Env(ctorOk, resolveOk, b) == [ctorOk |-> ctorOk, resolveOk |-> resolveOk, b |-> b]

Quiet == Behaviour(Returns(PyLit("rows")), Returns(PyLit("rows")))

FacadeEnvs ==
    {Env(FALSE, TRUE, Quiet), Env(TRUE, FALSE, Quiet)}
        \cup {Env(TRUE, TRUE, b) : b \in FacadeBehaviours}

DoExecuteTool ==
    \E t \in ToolNames :
        \E k \in KwargsFor[t], e \in FacadeEnvs :
            /\ e.ctorOk \in CtorOutcomes
            /\ ExecuteTool(t, k, e.ctorOk, e.resolveOk, e.b.first, e.b.second)
            /\ UNCHANGED coordinator /\ Sync(TOOLBOX_URL)

\* no identifier is tried, and so none fails, when the constructor has raised
DoLoadToolsPersistent ==
    \E n \in ToolsetNames, ctorOk \in CtorOutcomes, url \in Urls :
        \E broken \in (IF ctorOk THEN BrokenSets[n] ELSE {{}}) :
            LoadToolsPersistent(n, ctorOk, broken) /\ UNCHANGED coordinator /\ Sync(url)

DoGetToolboxClient ==
    \E ctorOk \in CtorOutcomes, url \in Urls :
        GetToolboxClient(ctorOk) /\ UNCHANGED coordinator /\ Sync(url)

DoCleanupToolboxClient ==
    \E closeOk \in BOOLEAN : CleanupToolboxClient(closeOk) /\ UNCHANGED coordinator /\ Sync(NoUrl)

DoAdapterCall ==
    \E k \in AllKwargs, b \in RemoteBehaviours :
        /\ held.tool_name \in ToolNames
        /\ k \in KwargsFor[held.tool_name]
        /\ AdapterCall(k, b.first, b.second)
        /\ UNCHANGED coordinator /\ Sync(NoUrl)

\* the facade
Next ==
    \/ DoExecuteTool
    \/ DoGetToolboxClient
    \/ DoCleanupToolboxClient

Spec == Init /\ [][Next]_vars

\* the loader
LoaderNext ==
    \/ DoLoadToolsPersistent
    \/ DoGetToolboxClient
    \/ DoCleanupToolboxClient

LoaderSpec == Init /\ [][LoaderNext]_vars

DoLoadAnyTool ==
    \E t \in ToolNames, ctorOk \in CtorOutcomes, resolveOk \in BOOLEAN :
        LoadSingleTool(t, ctorOk, resolveOk) /\ UNCHANGED coordinator /\ Sync(TOOLBOX_URL)

\* the calls of a kept Adapter
AdapterNext ==
    \/ DoLoadAnyTool
    \/ DoCleanupToolboxClient
    \/ DoAdapterCall

AdapterSpec == Init /\ [][AdapterNext]_vars

\* the identifiers the Registry is asked about: every one it has and two it lacks
QueryNames == RegistryKeys \cup {"get_all_table_sizes", "no_such_tool"}

DoGetToolInfo == \E t \in QueryNames : GetToolInfo(t) /\ UNCHANGED coordinator /\ Sync(NoUrl)

DoListAvailableTools == ListAvailableTools /\ UNCHANGED coordinator /\ Sync(NoUrl)

DoValidateToolParameters ==
    \E t \in QueryNames, k \in AllKwargs :
        ValidateToolParameters(t, k) /\ UNCHANGED coordinator /\ Sync(NoUrl)

\* the queries of the Registry
RegistryNext ==
    \/ DoGetToolInfo
    \/ DoListAvailableTools
    \/ DoValidateToolParameters

RegistrySpec == Init /\ [][RegistryNext]_vars

\* fewer identifiers and bundles, each at either endpoint
HandleTools == {"get_database_sizes", "get_unused_indexes"}
HandleToolsets == {"postgres-dba-schema", "get_database_users_and_roles"}

DoLoadSingleToolAt ==
    \E t \in HandleTools, ctorOk \in CtorOutcomes, resolveOk \in BOOLEAN, url \in Urls :
        LoadSingleTool(t, ctorOk, resolveOk) /\ UNCHANGED coordinator /\ Sync(url)

DoLoadToolsPersistentAt ==
    \E n \in HandleToolsets, ctorOk \in CtorOutcomes, url \in Urls :
        \E broken \in (IF ctorOk THEN {{}, {"get_unused_indexes"}, Range(ToolNamesOf(n))}
                                  ELSE {{}}) :
            LoadToolsPersistent(n, ctorOk, broken) /\ UNCHANGED coordinator /\ Sync(url)

\* the connection handle under every loader operation and the teardown
HandleNext ==
    \/ DoGetToolboxClient
    \/ DoLoadSingleToolAt
    \/ DoLoadToolsPersistentAt
    \/ DoCleanupToolboxClient

HandleSpec == Init /\ [][HandleNext]_vars

\* the values callers pass for each parameter of a facade function
ArgValues ==
    [ limit |-> {None, PyInt(5)},
      min_size_mb |-> {None, PyInt(50)},
      schema_name |-> {PyStr(S_public)},
      table_name |-> {None, PyStr(S_orders)},
      username |-> {None, PyStr(S_empty), PyStr(S_app_user)} ]

\* the keyword arguments tried with a facade function
FacadeKwargs ==
    [fn \in DOMAIN Facades |->
        {k \in [Facades[fn].params -> UNION {ArgValues[p] : p \in DOMAIN ArgValues}] :
            \A p \in Facades[fn].params : k[p] \in ArgValues[p]}]

\* the identifiers the facade functions call
FacadeTools == {Facades[fn].tool : fn \in DOMAIN Facades}

\* the identifiers that fail to resolve while the module is loaded: none, one of
\* those the facade functions call, or all of the bundle
ImportBroken ==
    {{}} \cup {{t} : t \in FacadeTools \cap Range(ToolNamesOf("postgres-dba-complete"))}
         \cup {Range(ToolNamesOf("postgres-dba-complete"))}

DoInitializeTools ==
    \E ctorOk \in CtorOutcomes :
        \E broken \in (IF ctorOk THEN ImportBroken ELSE {{}}) :
            InitializeTools(ctorOk, broken) /\ Sync(TOOLBOX_URL)

DoFacadeCall ==
    \E fn \in DOMAIN Facades, b \in FacadeBehaviours :
        \E k \in FacadeKwargs[fn] : FacadeCall(fn, k, b.first, b.second) /\ Sync(NoUrl)

\* the coordinator's facade functions over the tools loaded with the module
CoordinatorNext ==
    \/ DoInitializeTools
    \/ DoFacadeCall

CoordinatorSpec == Init /\ [][CoordinatorNext]_vars

(***************************************************************************)
(* The analysis functions and their callers.                               *)
(***************************************************************************)
\* the tools the analysis functions name
AnalysisTools ==
    {"list_active_queries", "get_slowest_historical_queries",
     "get_most_io_intensive_queries", "get_most_frequent_queries",
     "get_blocking_sessions", "get_long_running_transactions", "get_cache_hit_ratios",
     "get_memory_configuration", "get_table_sizes_summary", "list_database_tables",
     "find_invalid_indexes", "get_unused_indexes", "get_table_maintenance_stats",
     "get_database_sizes", "list_installed_extensions", "list_available_extensions"}

\* every tool answers rows, but the tools of special
Answers(special) ==
    [t \in AnalysisTools |-> IF t \in DOMAIN special THEN special[t] ELSE Quiet]

\* a get_table_sizes_summary answer the maintenance loop can walk: two tables and an
\* element that is no dictionary
TableList ==
    PyList(<<PyDict("table_name" :> PyLit("orders")), PyLit("rows"),
             PyDict("table_name" :> PyLit("users"))>>)

AnalysisEnv(ctorOk, broken, special) ==
    [ctorOk |-> ctorOk, broken |-> broken, answers |-> Answers(special)]

AnalysisEnvs ==
    { AnalysisEnv(TRUE, {}, EmptyDict),
      AnalysisEnv(FALSE, {}, EmptyDict),
      AnalysisEnv(TRUE, {"list_database_tables"},
                  "get_table_sizes_summary" :> Behaviour(Returns(TableList),
                                                         Returns(TableList))),
      AnalysisEnv(TRUE, {},
                  ("get_table_sizes_summary" :> Behaviour(Returns(TableList),
                                                          Returns(TableList)))
                      @@ ("get_table_maintenance_stats" :>
                              Behaviour(Raises("refused"), Raises("refused")))) }

\* the arguments callers pass besides the analysis type
Args(schema_name, limit, other) ==
    [schema_name |-> schema_name, limit |-> limit, other |-> other]

PerformanceArgs ==
    { [limit |-> None, min_duration |-> None, limit_active |-> None],
      [limit |-> None, min_duration |-> PyLit("5 minutes"), limit_active |-> PyInt(3)],
      [limit |-> PyInt(1), min_duration |-> None, limit_active |-> PyInt(3)] }

SchemaArgs ==
    { Args(None, None, None), Args(None, PyInt(1), PyInt(50)),
      Args(PyStr(S_public), None, None), Args(PyStr(S_public), PyInt(1), PyInt(50)) }

DoExecutePerformanceAnalysis ==
    \E t \in {"comprehensive", "queries", "blocking", "cache", "memory"},
       a \in PerformanceArgs, e \in AnalysisEnvs :
        /\ e.ctorOk \in CtorOutcomes
        /\ ExecutePerformanceAnalysis(t, a.limit, a.min_duration, a.limit_active, e)
        /\ UNCHANGED coordinator /\ Sync(TOOLBOX_URL)

DoExecuteSchemaAnalysis ==
    \E t \in {"comprehensive", "tables", "indexes", "maintenance"},
       a \in SchemaArgs, e \in AnalysisEnvs :
        /\ e.ctorOk \in CtorOutcomes
        /\ ExecuteSchemaAnalysis(t, a.schema_name, a.limit, a.other, e)
        /\ UNCHANGED coordinator /\ Sync(TOOLBOX_URL)

DoExecuteMaintenanceAnalysis ==
    \E t \in {"comprehensive", "stats", "sizes", "extensions"},
       a \in SchemaArgs, e \in AnalysisEnvs :
        /\ e.ctorOk \in CtorOutcomes
        /\ a.other = None
        /\ ExecuteMaintenanceAnalysis(t, a.schema_name, a.limit, e)
        /\ UNCHANGED coordinator /\ Sync(TOOLBOX_URL)

AnalysisNext ==
    \/ DoExecutePerformanceAnalysis
    \/ DoExecuteSchemaAnalysis
    \/ DoExecuteMaintenanceAnalysis

AnalysisSpec == Init /\ [][AnalysisNext]_vars

(***************************************************************************)
(* Properties.                                                             *)
(***************************************************************************)
\* the "status" entry of a returned value, None when it has none
StatusOf(v) == IF IsDict(v) /\ "status" \in DOMAIN v[2] THEN v[2]["status"] ELSE None

Executed == last.op = "execute_tool"
AdapterCalled == last.op = "adapter_call"

\* C1: execute_tool with an identifier that is no key of the Registry does nothing
\* remote (no client constructed, nothing resolved, nothing invoked, the handle as
\* before) and returns a failed envelope whose error lists the Registry's identifiers.
C1_UnregisteredIsNotFound ==
    (Executed /\ last.tool_name \notin DOMAIN TOOLS_REGISTRY) =>
        /\ ~last.made
        /\ last.resolved = << >>
        /\ last.invoked = << >>
        /\ last.adapters = << >>
        /\ toolbox_client = last.clientBefore
        /\ last.outcome = "returned"
        /\ StatusOf(last.value) = PyLit("failed")
        /\ last.value[2]["error"][2] = "not found. Available tools"
        /\ last.value[2]["error"][3] = last.tool_name
        /\ last.value[2]["error"][4] = DOMAIN TOOLS_REGISTRY

\* an unregistered identifier executed while a client is connected
C1_Witness ==
    /\ Executed
    /\ last.tool_name \notin DOMAIN TOOLS_REGISTRY
    /\ last.clientBefore # NoClient

\* the required parameters of a Registry entry are all absent from kwargs or None
RequiredOmitted(tool_name, kwargs) ==
    \A p \in Range(TOOLS_REGISTRY[tool_name].required_params) :
        p \notin DOMAIN kwargs \/ IsNone(kwargs[p])

\* C2: execute_tool of a Registry identifier that has required parameters, called
\* without them (absent or None), returns status failed or blocked, never success.
C2_RequiredOmittedNeverSucceeds ==
    (/\ Executed
     /\ last.tool_name \in DOMAIN TOOLS_REGISTRY
     /\ TOOLS_REGISTRY[last.tool_name].required_params # << >>
     /\ RequiredOmitted(last.tool_name, last.kwargs)) =>
        /\ last.outcome = "returned"
        /\ StatusOf(last.value) \in {PyLit("failed"), PyLit("blocked")}

\* such a call, with the tool resolved, answered by the blocked envelope
C2_Witness ==
    /\ Executed
    /\ last.tool_name = "get_user_table_permissions"
    /\ last.kwargs = ("table_name" :> PyStr(S_orders))
    /\ last.adapters # << >>
    /\ StatusOf(last.value) = PyLit("blocked")

\* kwargs carries no usable username: absent, None or the empty string
NoUsername(kwargs) ==
    \/ "username" \notin DOMAIN kwargs
    \/ IsNone(kwargs["username"])
    \/ kwargs["username"] = PyStr(S_empty)

\* kwargs carries a non-empty string as username
HasUsername(kwargs) ==
    /\ "username" \in DOMAIN kwargs
    /\ IsStr(kwargs["username"])
    /\ kwargs["username"][2] # << >>

\* C3: a call of the Adapter of a username-gated tool whose username is absent, None
\* or the empty string returns a blocked envelope and invokes nothing remote.
C3_NoUsernameIsBlocked ==
    (AdapterCalled /\ UsernameGated(last.tool_name) /\ NoUsername(last.kwargs)) =>
        /\ last.invoked = << >>
        /\ last.outcome = "returned"
        /\ StatusOf(last.value) = PyLit("blocked")

\* C4: a call of the Adapter of a username-gated tool with a non-empty username u
\* invokes the remote callable with username = u between one pair of double quotes,
\* and with every other supplied argument that is not None unchanged.
C4_UsernameQuotedOthersUnchanged ==
    (AdapterCalled /\ UsernameGated(last.tool_name) /\ HasUsername(last.kwargs)) =>
        /\ Len(last.invoked) >= 1
        /\ LET args == last.invoked[1].args
               u == last.kwargs["username"][2]
           IN  /\ "username" \in DOMAIN args
               /\ args["username"] = PyStr(<<"\"">> \o u \o <<"\"">>)
               /\ \A k \in DOMAIN last.kwargs \ {"username"} :
                      ~IsNone(last.kwargs[k]) =>
                          k \in DOMAIN args /\ args[k] = last.kwargs[k]

\* get_user_table_permissions(username="app_user", table_name="orders") invoked
C4_Witness ==
    /\ AdapterCalled
    /\ last.tool_name = "get_user_table_permissions"
    /\ last.kwargs = ("username" :> PyStr(S_app_user)) @@ ("table_name" :> PyStr(S_orders))
    /\ Len(last.invoked) = 1
    /\ last.invoked[1].args["table_name"] = PyStr(S_orders)
    /\ last.outcome = "returned"

\* execute_tool of a registered identifier right after an execute_tool of the same
\* identifier, no teardown in between
ExecutedAgain ==
    /\ Executed
    /\ last.tool_name \in DOMAIN TOOLS_REGISTRY
    /\ last.execBefore # NoAdapter
    /\ last.execBefore.tool_name = last.tool_name

RECURSIVE Minus(_, _)
\* the sequence seq with the members of the set S removed
Minus(seq, S) ==
    IF seq = << >> THEN << >>
    ELSE IF seq[1] \in S THEN Minus(Tail(seq), S)
         ELSE <<seq[1]>> \o Minus(Tail(seq), S)

BundleLoaded == last.op = "load_tools_persistent"

\* C6: load_tools_persistent never raises; with a client, whatever identifiers of the
\* bundle fail to resolve, it returns one Adapter per identifier that resolved, in the
\* order of the bundle's definition with the failed ones removed.
C6_PartialFailureTolerated ==
    BundleLoaded =>
        /\ last.outcome = "returned"
        /\ "connect" \in last.failed => last.adapters = << >>
        /\ "connect" \notin last.failed =>
              /\ last.failed \subseteq Range(ToolNamesOf(last.tool_name))
              /\ [i \in 1..Len(last.adapters) |-> last.adapters[i].ident]
                     = Minus(ToolNamesOf(last.tool_name), last.failed)

\* the bundle of four with one identifier, not the last, broken: three Adapters
C6_Witness ==
    /\ BundleLoaded
    /\ last.tool_name = "postgres-dba-emergency"
    /\ last.failed = {"get_blocking_sessions"}
    /\ Len(last.adapters) = 3
    /\ last.adapters[2].ident = "get_long_running_transactions"

TornDown == last.op = "cleanup_toolbox_client"

\* C7: cleanup_toolbox_client, called with or without a client and whether or not
\* close() fails, returns normally and leaves the handle None.
C7_TeardownNeverRaisesLeavesNone ==
    TornDown =>
        /\ last.outcome = "returned"
        /\ toolbox_client = NoClient

\* a teardown whose close() raised
C7_Witness ==
    /\ TornDown
    /\ last.clientBefore # NoClient
    /\ "close" \in last.failed

\* C8: execute_tool of a Registry entry that declares defaults invokes the remote
\* callable with the Registry's default for every such parameter the caller omitted,
\* and with the caller's value for every one supplied.
C8_RegistryDefaultsApplied ==
    (/\ Executed
     /\ last.tool_name \in DOMAIN TOOLS_REGISTRY
     /\ Len(last.invoked) >= 1) =>
        LET defaults == TOOLS_REGISTRY[last.tool_name].defaults
            args == last.invoked[1].args
        IN  \A p \in DOMAIN defaults :
                /\ p \notin DOMAIN last.kwargs =>
                       p \in DOMAIN args /\ args[p] = defaults[p]
                /\ (p \in DOMAIN last.kwargs /\ ~IsNone(last.kwargs[p])) =>
                       p \in DOMAIN args /\ args[p] = last.kwargs[p]

\* the text of the exception e has "parameter" in it, in any case of letters
MentionsParameter(e) ==
    LET text == ExceptionText[e]
        n == Len(S_parameter)
    IN  \E i \in 1..(Len(text) - n + 1) :
            \A j \in 1..n : LowerChar(text[i + j - 1]) = S_parameter[j]

\* the first invocation of the Adapter call raised
FirstRaised ==
    /\ AdapterCalled
    /\ Len(last.invoked) >= 1
    /\ last.invoked[1].exc # NoException

C10_InvokedAtMostOnce == AdapterCalled => Len(last.invoked) <= 1

\* C10 amended: one Adapter call invokes the remote callable at most twice, the
\* second time only after the first raised an error whose text has "parameter" in
\* it, and then with no arguments.
C10_InvokedAtMostTwice ==
    AdapterCalled =>
        /\ Len(last.invoked) <= 2
        /\ Len(last.invoked) = 2 =>
              /\ last.invoked[1].exc # NoException
              /\ MentionsParameter(last.invoked[1].exc)
              /\ last.invoked[2].args = EmptyDict

\* a call with arguments invoked twice, both invocations raising
C10_Witness ==
    /\ AdapterCalled
    /\ Len(last.invoked) = 2
    /\ last.invoked[1].args # EmptyDict
    /\ last.invoked[2].exc # NoException
    /\ last.outcome = "raised"

Envelope(status) == PyLit(status)

\* C11: every value execute_tool returns is a dictionary whose status is success,
\* failed or blocked, whatever the identifier, the arguments and the remote result.
C11_StatusIsOneOfThree ==
    Executed =>
        /\ last.outcome = "returned"
        /\ IsDict(last.value)
        /\ StatusOf(last.value) \in {Envelope("success"), Envelope("failed"), Envelope("blocked")}

\* the last invocation of the remote callable in the call raised
LastInvocationRaised ==
    /\ last.invoked # << >>
    /\ last.invoked[Len(last.invoked)].exc # NoException

\* C12 as stated: a transport or service fault raised by the remote callable during
\* execute_tool of a registered identifier leaves execute_tool as that exception.
C12_RemoteFaultPropagates ==
    (/\ Executed
     /\ last.tool_name \in DOMAIN TOOLS_REGISTRY
     /\ last.invoked # << >>
     /\ last.invoked[1].exc \in {"refused", "config"}) =>
        /\ last.outcome = "raised"
        /\ last.exc = last.invoked[1].exc

\* C12 amended: no exception leaves execute_tool; when the Adapter call ends in an
\* exception of the remote callable, execute_tool returns a failed envelope whose
\* error carries that exception's text.
C12_RemoteFaultBecomesFailedEnvelope ==
    (Executed /\ last.tool_name \in DOMAIN TOOLS_REGISTRY) =>
        /\ last.outcome = "returned"
        /\ LastInvocationRaised =>
              /\ StatusOf(last.value) = Envelope("failed")
              /\ last.value[2]["error"][3] = last.tool_name
              /\ last.value[2]["error"][4] = last.invoked[Len(last.invoked)].exc

\* a transport fault of the remote callable, returned as a failed envelope
C12_Witness ==
    /\ Executed
    /\ last.tool_name = "get_database_sizes"
    /\ Len(last.invoked) = 1
    /\ last.invoked[1].exc = "refused"
    /\ last.outcome = "returned"

\* the identifier was tried at the remote layer and did not resolve
Unresolvable == last.tool_name \in last.failed

\* C20: execute_tool of a registered identifier that load_tool cannot resolve returns
\* a failed envelope and raises nothing.
C20_UnresolvableIsFailedEnvelope ==
    (Executed /\ last.tool_name \in DOMAIN TOOLS_REGISTRY /\ Unresolvable) =>
        /\ last.outcome = "returned"
        /\ IsDict(last.value)
        /\ StatusOf(last.value) = Envelope("failed")
        /\ last.invoked = << >>

\* a registered identifier that does not resolve, the client connected
C20_Witness ==
    /\ Executed
    /\ last.tool_name = "get_unused_indexes"
    /\ Unresolvable
    /\ last.resolved = <<"get_unused_indexes">>
    /\ toolbox_client # NoClient

\* the value a parameter of the call has: the caller's if the caller names it, else
\* the stored default
Supplied(tool_name, kwargs, k) ==
    IF k \in DOMAIN kwargs THEN kwargs[k] ELSE DefaultsOf(tool_name)[k]

\* the stored defaults overridden by the caller's arguments, the None entries removed
ExpectedArgs(tool_name, kwargs) ==
    [k \in {n \in DOMAIN DefaultsOf(tool_name) \cup DOMAIN kwargs :
                ~IsNone(Supplied(tool_name, kwargs, n))}
        |-> Supplied(tool_name, kwargs, k)]

\* C18 as stated: every Adapter call invokes the remote callable, the first time
\* with exactly the defaults overridden by the caller's arguments, None entries removed.
C18_ArgsAreMergedSet ==
    AdapterCalled =>
        /\ Len(last.invoked) >= 1
        /\ last.invoked[1].args = ExpectedArgs(last.tool_name, last.kwargs)

\* C18 amended: the same, except for the two username-gated tools: without a
\* username in the merged set nothing is invoked, and a non-empty string username is
\* passed between double quotes.
C18_ArgsAreMergedSetUsernameQuoted ==
    AdapterCalled =>
        LET expected == ExpectedArgs(last.tool_name, last.kwargs)
            gated == last.tool_name \in {"get_user_table_permissions",
                                         "get_user_role_memberships"}
        IN  IF gated /\ "username" \notin DOMAIN expected
            THEN last.invoked = << >>
            ELSE /\ Len(last.invoked) >= 1
                 /\ last.invoked[1].args =
                        IF gated /\ HasUsername(expected)
                        THEN [expected EXCEPT !["username"] =
                                 PyStr(<<"\"">> \o expected["username"][2] \o <<"\"">>)]
                        ELSE expected

\* None supplied for min_size_mb, whose default is 1: the invocation has no arguments
C18_Witness ==
    /\ AdapterCalled
    /\ last.tool_name = "get_unused_indexes"
    /\ last.kwargs = ("min_size_mb" :> None)
    /\ Len(last.invoked) = 1
    /\ last.invoked[1].args = EmptyDict

\* C19: an Adapter call whose remote callable raises an error that is no
\* missing-argument or parameter-shape error (a transport fault, a fault of the
\* database) raises that error, after the one invocation, and returns no value.
C19_OtherErrorsRaised ==
    (FirstRaised /\ last.invoked[1].exc \in {"refused", "config"}) =>
        /\ Len(last.invoked) = 1
        /\ last.outcome = "raised"
        /\ last.exc = last.invoked[1].exc

InfoAsked == last.op = "get_tool_info"

\* the value is a descriptor of the identifier: no error, the Registry's category
\* and parameter lists
DescribedAs(v, tool_name) ==
    /\ IsDict(v)
    /\ "error" \notin DOMAIN v[2]
    /\ {"name", "category", "parameters", "required_params", "optional_params"}
           \subseteq DOMAIN v[2]
    /\ v[2]["name"] = PyLit(tool_name)
    /\ v[2]["category"] = TOOLS_REGISTRY[tool_name].category
    /\ v[2]["parameters"] = TOOLS_REGISTRY[tool_name].parameters
    /\ v[2]["required_params"] = TOOLS_REGISTRY[tool_name].required_params
    /\ v[2]["optional_params"] = TOOLS_REGISTRY[tool_name].optional_params

\* the value is a failure: a dictionary with an error and nothing of a descriptor
NotFoundFailure(v) ==
    /\ IsDict(v)
    /\ "error" \in DOMAIN v[2]
    /\ "category" \notin DOMAIN v[2]

\* C14: get_tool_info called after list_available_tools returns a descriptor with the
\* Registry's category and parameter lists for every identifier the list has, and a
\* not-found failure for every identifier the list lacks.
C14_ListedIffDescribed ==
    [][(last.op = "list_available_tools" /\ last'.op = "get_tool_info") =>
          IF last'.tool_name \in last.value[2]
          THEN DescribedAs(last'.value, last'.tool_name)
          ELSE NotFoundFailure(last'.value)]_vars

\* a listed identifier described
C14_Witness ==
    /\ InfoAsked
    /\ last.tool_name = "get_user_table_permissions"
    /\ DescribedAs(last.value, "get_user_table_permissions")
    /\ last.value[2]["required_params"] = <<"username">>

\* C15: get_tool_info of an identifier the Registry lacks returns a not-found failure
\* that lists the Registry's identifiers.
C15_NotFoundListsIdentifiers ==
    (InfoAsked /\ last.tool_name \notin DOMAIN TOOLS_REGISTRY) =>
        /\ NotFoundFailure(last.value)
        /\ \/ /\ "available_tools" \in DOMAIN last.value[2]
              /\ last.value[2]["available_tools"][2] = DOMAIN TOOLS_REGISTRY
           \/ /\ Len(last.value[2]["error"]) >= 4
              /\ last.value[2]["error"][4] = DOMAIN TOOLS_REGISTRY

Validated == last.op = "validate_tool_parameters"

\* C13: validate_tool_parameters of a registered identifier returns valid = false with
\* the missing names exactly when a required parameter is absent or None; with the
\* required ones present and an unrecognized name supplied it returns a warning and
\* not valid = false; otherwise valid = true.
C13_ValidateOutcomes ==
    (Validated /\ last.tool_name \in DOMAIN TOOLS_REGISTRY) =>
        LET entry == TOOLS_REGISTRY[last.tool_name]
            missing == {p \in Range(entry.required_params) :
                           p \notin DOMAIN last.kwargs \/ IsNone(last.kwargs[p])}
            unknown == DOMAIN last.kwargs \ Range(entry.parameters)
            v == last.value[2]
        IN  IF missing # {}
            THEN /\ v["valid"] = PyBool(FALSE)
                 /\ Range(v["error"][3]) = missing
            ELSE IF unknown # {}
                 THEN "warning" \in DOMAIN v /\ v["valid"] # PyBool(FALSE)
                 ELSE v["valid"] = PyBool(TRUE)

FacadeCalled == last.op \in DOMAIN Facades

\* C16: a facade function of the coordinator hands on the Adapter's envelope: when
\* the Adapter returned an envelope with status blocked or failed, the value the
\* facade returns is that envelope, with that status and not success.
C16_FacadeForwardsEnvelope ==
    (/\ FacadeCalled
     /\ last.subcalls # << >>
     /\ last.subcalls[1].outcome = "returned"
     /\ StatusOf(last.subcalls[1].value) \in {Envelope("blocked"), Envelope("failed")}) =>
        /\ StatusOf(last.value) = StatusOf(last.subcalls[1].value)
        /\ last.value = last.subcalls[1].value


\* an analysis function has been called
AnalysisCalled ==
    last.op \in {"execute_performance_analysis", "execute_schema_analysis",
                 "execute_maintenance_analysis"}

\* the call ended with the failure that names a required parameter
MissingParameterReturned == AnalysisCalled /\ "required_parameter" \in DOMAIN last.value[2]

\* C17: an analysis function that returns its missing-parameter failure (limit for
\* the query part of execute_performance_analysis, schema_name for the schema and
\* the maintenance analysis) has made no execute_tool call in that invocation.
C17_MissingParameterBeforeSubCalls == MissingParameterReturned => last.subcalls = << >>


\* the operations that get or create the client
LoaderOps == {"get_toolbox_client", "load_single_tool", "load_tools_persistent"}

\* C21: while no teardown happens, a loader call that finds a stored client constructs
\* none and leaves the handle and its endpoint as they are, whatever toolbox_url it
\* passes, and every Adapter it builds wraps a tool resolved through that client.
C21_ConstructedOnceSameHandle ==
    [][(last'.op \in LoaderOps /\ toolbox_client # NoClient)
          => /\ toolbox_client' = toolbox_client
             /\ ~last'.made
             /\ endpoint'.stored = endpoint.stored
             /\ \A i \in DOMAIN last'.adapters :
                    last'.adapters[i].client = toolbox_client]_vars

\* a load that passed another toolbox_url than the stored client's and built Adapters
C21_Witness ==
    /\ last.op \in {"load_single_tool", "load_tools_persistent"}
    /\ last.clientBefore # NoClient
    /\ endpoint.passed # endpoint.stored
    /\ last.adapters # << >>
    /\ last.adapters[1].client = last.clientBefore

\* both overlapping loader calls have returned
BothReturned == \A t \in Threads : threads[t].pc = "done"

\* C22: when two loader calls that found the handle uninitialized have both returned,
\* exactly one client has been constructed, both calls went through it, and every
\* constructed client is the stored one or has been closed.
C22_SingleFlight ==
    BothReturned
        => /\ Cardinality(Constructed) = 1
           /\ \A t \in Threads : threads[t].used = toolbox_client
           /\ Constructed \subseteq {toolbox_client} \cup closed

\* load_single_tool has been called and the resolution of its identifier failed
SingleResolutionFailed == last.op = "load_single_tool" /\ last.tool_name \in last.failed

\* C23: when the remote resolution fails, load_single_tool raises that failure, builds
\* no Adapter, tries no other identifier, and a handle that was connected before the
\* call is still the stored handle.
C23_SingleLoadFailsLoudly ==
    SingleResolutionFailed
        => /\ last.outcome = "raised"
           /\ last.exc = "unknown_tool"
           /\ last.adapters = << >>
           /\ last.resolved = <<last.tool_name>>
           /\ last.clientBefore # NoClient => toolbox_client = last.clientBefore

\* a failed resolution through a client that was already connected
C23_Witness ==
    /\ SingleResolutionFailed
    /\ last.clientBefore # NoClient
    /\ ~last.made

\* load_tools_persistent has been called with a name that is no toolset, and the
\* client was there
UnknownBundleLoaded ==
    /\ last.op = "load_tools_persistent"
    /\ last.tool_name \notin DOMAIN Toolsets
    /\ "connect" \notin last.failed

C25_HandleLifecycle ==
    [][/\ (toolbox_client = NoClient /\ toolbox_client' # NoClient)
            => /\ last'.op \in LoaderOps
               /\ last'.made
               /\ toolbox_client' \notin closed
       /\ (toolbox_client # NoClient /\ toolbox_client' # toolbox_client)
            => /\ last'.op = "cleanup_toolbox_client"
               /\ toolbox_client' = NoClient
       /\ ~(closed' \subseteq closed) => last'.op = "cleanup_toolbox_client"
       /\ toolbox_client' \notin closed']_vars

\* a client constructed by the first load after a teardown, while an Adapter of the
\* closed client is still kept
C25_Witness ==
    /\ last.op \in LoaderOps
    /\ last.made
    /\ closed # {}
    /\ toolbox_client # NoClient
    /\ held.client \in closed

\* load_tools_persistent has returned the empty list
BundleLoadFailed == last.op = "load_tools_persistent" /\ last.value = PyList(<< >>)

\* C26: when load_tools_persistent returns the empty list, because no identifier of
\* the bundle resolved or because the load raised, the handle is uninitialized after
\* the call and the client that was stored is not left open.
C26_FailedBundleResetsHandle == BundleLoadFailed => toolbox_client = NoClient

\* C27: every invocation of the remote callable that a call of the Adapter of a
\* username-gated tool makes, the one of its error recovery included, carries a
\* username argument.
C27_GatedNeverInvokedWithoutUsername ==
    (last.op = "adapter_call" /\ UsernameGated(last.tool_name))
        => \A i \in DOMAIN last.invoked : "username" \in DOMAIN last.invoked[i].args

\* C28: a call of a kept Adapter that invokes the remote callable does so through a
\* client that has not been closed since the Adapter was obtained.
C28_NoCallThroughClosedClient ==
    (last.op = "adapter_call" /\ last.invoked # << >>) => held.client \notin closed

\* validate_tool_parameters has reported unknown parameters for a registered tool
UnknownReported ==
    /\ last.op = "validate_tool_parameters"
    /\ last.tool_name \in RegistryKeys
    /\ "warning" \in DOMAIN last.value[2]

\* the parameter names the entry of tool_name declares
Declared(tool_name) ==
    Range(TOOLS_REGISTRY[tool_name].required_params)
        \cup Range(TOOLS_REGISTRY[tool_name].optional_params)

\* C29: validate_tool_parameters reports as unknown no parameter that the entry of
\* the tool declares in required_params or optional_params (the entry's parameters
\* list being the union of the two).
C29_DeclaredNeverUnknown ==
    UnknownReported => last.value[2]["warning"][3] \cap Declared(last.tool_name) = {}

\* every identifier of postgres-dba-complete resolved when the coordinator was loaded
WholeBundleCached == DOMAIN tools_cache = Range(Toolsets["postgres-dba-complete"])

\* C30: when every identifier of postgres-dba-complete has resolved at the load of the
\* coordinator, no facade function fails because _get_tool does not find its tool.
C30_FacadeToolsAreCached ==
    (FacadeCalled /\ WholeBundleCached)
        => last.value # FacadeFailed(last.tool_name, "key_error")

====
